---- MODULE Spec2Model ----
(***************************************************************************)
(* A model of the compiler's staged pipeline around CodegenStage           *)
(* (midenc-driver/src/commands/compile/stages/codegen.rs) and of the       *)
(* parser AST's instruction model (hir/src/parser/ast/instruction.rs), of  *)
(* the SDK's field element (sdk/prelude/src/intrinsics/felt.rs) and of the *)
(* integration tests' CompilerTest                                         *)
(* (tests/integration/src/compiler_test.rs).                               *)
(***************************************************************************)
EXTENDS Integers, Sequences, FiniteSets, TLC

(***************************************************************************)
(* Bounds of the model.                                                    *)
(***************************************************************************)
\* the hir modules of one compilation are numbered 1..MaxModules
MaxModules == 3
\* source spans are numbered 1..NumSpans
NumSpans == 2
\* the values (crate::Value) of a function are numbered 1..NumValues
NumValues == 2
\* the blocks (crate::Block) of a function are numbered 1..NumBlocks
NumBlocks == 2
\* a Switch under evaluation has at most MaxArms arms
MaxArms == 3
\* the case values and input tags of a Switch are 1..NumTags
NumTags == 2
\* a Switch is evaluated at most MaxEvals times
MaxEvals == 2
\* a GlobalValueExpr tree is at most MaxDepth nodes deep
MaxDepth == 5
\* the u64 values a Felt is made from have every 16-bit limb within NearEdge
\* of 0 or of 65535
NearEdge == 3
\* at most MaxOps methods are called on one CompilerTest
MaxOps == 4

VARIABLES
    session,    \* the Session: read-only configuration of one compilation
    failing,    \* the units (modules, the program) the converter rejects
    link_fails, \* whether the linking stage fails on this input
    pc,         \* index into Stages of the stage the driver handles next
    artifact,   \* the artifact threaded from one stage to the next
    analyses,   \* the AnalysisManager: the units whose analyses are cached
    status,     \* "running", "done" or "failed"
    failure,    \* the pipeline's failure when status = "failed", else NoError
    ran,        \* the stages whose run was invoked, in order
    gates,      \* what enabled(session) answered for each stage handled so far
    cg,         \* the record of CodegenStage::run's invocation, or NoRun
    inst_pair,  \* the two Insts being compared, or <<>>
    inst_eq,    \* <<the result of comparing them>>, or <<>> before
    succ_pair,  \* the two Successors being compared, or <<>>
    succ_eq,    \* <<the result of comparing them>>, or <<>> before
    sw,         \* the Switch being evaluated: its arms as given, the
                \* instruction built from them and the input tag; or <<>>
    sw_chosen,  \* the successors its evaluations chose, in order
    gv_expr,    \* <<the GlobalValueExpr whose ty() is being taken>>, or <<>>
    gv_cur,     \* <<the node the running call of ty() is at>>, or <<>>
    gv_calls,   \* how many times ty() has called itself so far
    gv_result,  \* <<what ty() returned>>, or <<>> before it returns
    felt_in,    \* <<the u64 a Felt is being made from>>, or <<>>
    felt_out,   \* <<what Felt::new returned>>, or <<>> before it is called
    felt_lit,   \* <<what felt! evaluated to>>, or <<>> before it is used
    felt_unchecked, \* the arguments from_u64_unchecked was called with
    felt_pair,  \* <<a, b>>, the two Felts being compared, or <<>>
    felt_ord,   \* <<what a's comparisons with b returned>>, or <<>> before
    test,       \* <<the CompilerTest>>, or <<>>
    t_calls,    \* the calls the test made into the compiler, in order
    t_log       \* the methods called on the test and how each ended, in order

pvars == <<session, failing, link_fails, pc, artifact, analyses, status,
           failure, ran, gates, cg>>
avars == <<inst_pair, inst_eq, succ_pair, succ_eq, sw, sw_chosen>>
gvars == <<gv_expr, gv_cur, gv_calls, gv_result>>
fvars == <<felt_in, felt_out, felt_lit, felt_unchecked, felt_pair,
           felt_ord>>
tvars == <<test, t_calls, t_log>>
vars == <<pvars, avars, gvars, fvars, tvars>>

(***************************************************************************)
(* Values                                                                  *)
(***************************************************************************)
ProgramUnit == 0
ModuleIds == 1..MaxModules
Units == ModuleIds \cup {ProgramUnit}

NoError == [kind |-> "none"]
NoRun == [invoked |-> FALSE]

\* hir::Module and masm::Module: a module keeps its identity through conversion
HirModule(id) == [lang |-> "hir", unit |-> id]
MasmModule(id) == [lang |-> "masm", unit |-> id]
\* hir::Program and masm::Program: the linked modules, in link order
HirProgram(ids) == [lang |-> "hir", unit |-> ProgramUnit, modules |-> ids]
MasmProgram(ids) == [lang |-> "masm", unit |-> ProgramUnit, modules |-> ids]

\* MaybeLinked, the input of CodegenStage
Linked(program) == [tag |-> "Linked", program |-> program]
Unlinked(modules) == [tag |-> "Unlinked", modules |-> modules]

\* Compiled, the output of CodegenStage
CompiledProgram(program) == [tag |-> "Program", program |-> program]
CompiledModules(modules) == [tag |-> "Modules", modules |-> modules]

\* Result<T, E>
Ok(v) == [tag |-> "Ok", value |-> v]
Err(e) == [tag |-> "Err", error |-> e]

Range(s) == {s[i] : i \in 1..Len(s)}

\* the sequences of at most n distinct elements of S: the module lists
RECURSIVE DistinctSeqs(_, _)
DistinctSeqs(S, n) ==
    IF n = 0 THEN {<<>>}
    ELSE LET shorter == DistinctSeqs(S, n - 1)
             longest == {t \in shorter : Len(t) = n - 1}
         IN shorter \cup
            UNION {{Append(t, x) : x \in S \ Range(t)} : t \in longest}

ModuleLists == DistinctSeqs(ModuleIds, MaxModules)

(***************************************************************************)
(* The Session.  It answers whether code generation is requested and       *)
(* whether the linking stage links the modules into a program.             *)
(***************************************************************************)
Sessions == [codegen : BOOLEAN, link : BOOLEAN]

should_codegen(s) == s.codegen

(***************************************************************************)
(* The target converter, masm::ConvertHirToMasm<T>::convert.  A call       *)
(* yields the compiled unit or the converter's failure for that unit; the  *)
(* unit's analyses are entered into the analysis cache either way.         *)
(* A converter outcome is [result, analyses].                              *)
(***************************************************************************)
ConversionError(unit) == [kind |-> "conversion", unit |-> unit]

convert_program(program, an) ==
    [result |-> IF ProgramUnit \in failing
                THEN Err(ConversionError(ProgramUnit))
                ELSE Ok(MasmProgram(program.modules)),
     analyses |-> an \cup {ProgramUnit}]

convert_module(module, an) ==
    [result |-> IF module.unit \in failing
                THEN Err(ConversionError(module.unit))
                ELSE Ok(MasmModule(module.unit)),
     analyses |-> an \cup {module.unit}]

\* DriverError: From<ConversionError>, which `?` applies to a converter's
\* failure on its way out of a stage: the failure becomes the source of a
\* DriverError, itself untouched
DriverErrorFrom(e) == [kind |-> "driver", source |-> e]

\* one entry of the log of converter calls
ConverterCall(conv, unit) == [conv |-> conv, unit |-> unit]

(***************************************************************************)
(* CodegenStage                                                            *)
(***************************************************************************)
\* enabled, were it to ignore the session
enabled_always(s) == TRUE

enabled(s) == should_codegen(s)

\* what run hands back: its DriverResult, the analysis cache as it leaves
\* it, and the converter calls it made, in order
Outcome(result, an, calls) ==
    [result |-> result, analyses |-> an, calls |-> calls]

\* the loop, were it to put each compiled module in front of the earlier ones
RECURSIVE convert_modules_rev(_, _, _, _, _)
convert_modules_rev(modules, i, masm_modules, an, calls) ==
    IF i > Len(modules)
    THEN Outcome(Ok(CompiledModules(masm_modules)), an, calls)
    ELSE LET c == convert_module(modules[i], an)
             log == Append(calls, ConverterCall("module", modules[i].unit))
         IN IF c.result.tag = "Err"
            THEN Outcome(Err(DriverErrorFrom(c.result.error)), c.analyses, log)
            ELSE convert_modules_rev(modules, i + 1,
                                     <<c.result.value>> \o masm_modules,
                                     c.analyses, log)

\* the loop, were it to pass over a module that fails and keep the others
RECURSIVE convert_modules_best_effort(_, _, _, _, _)
convert_modules_best_effort(modules, i, masm_modules, an, calls) ==
    IF i > Len(modules)
    THEN Outcome(Ok(CompiledModules(masm_modules)), an, calls)
    ELSE LET c == convert_module(modules[i], an)
             log == Append(calls, ConverterCall("module", modules[i].unit))
         IN convert_modules_best_effort(
                modules, i + 1,
                IF c.result.tag = "Err" THEN masm_modules
                ELSE Append(masm_modules, c.result.value),
                c.analyses, log)

\* the loop, were it to try every module and report the last failure
RECURSIVE convert_modules_last_error(_, _, _, _, _)
convert_modules_last_error(modules, i, masm_modules, an, calls) ==
    IF i > Len(modules)
    THEN Outcome(Ok(CompiledModules(masm_modules)), an, calls)
    ELSE LET c == convert_module(modules[i], an)
             log == Append(calls, ConverterCall("module", modules[i].unit))
             rest == convert_modules_last_error(
                         modules, i + 1,
                         IF c.result.tag = "Err" THEN masm_modules
                         ELSE Append(masm_modules, c.result.value),
                         c.analyses, log)
         IN IF c.result.tag = "Err" /\ rest.result.tag = "Ok"
            THEN Outcome(Err(DriverErrorFrom(c.result.error)),
                         rest.analyses, rest.calls)
            ELSE rest

\* the loop, were it to take the modules from the back of the list
RECURSIVE convert_modules_from_back(_, _, _, _, _)
convert_modules_from_back(modules, i, masm_modules, an, calls) ==
    IF i > Len(modules)
    THEN Outcome(Ok(CompiledModules(masm_modules)), an, calls)
    ELSE LET module == modules[Len(modules) - i + 1]
             c == convert_module(module, an)
             log == Append(calls, ConverterCall("module", module.unit))
         IN IF c.result.tag = "Err"
            THEN Outcome(Err(DriverErrorFrom(c.result.error)), c.analyses, log)
            ELSE convert_modules_from_back(modules, i + 1,
                                           Append(masm_modules, c.result.value),
                                           c.analyses, log)

\* the for loop of the Unlinked arm, from module i on: `?` returns the
\* converter's failure at once, dropping masm_modules
RECURSIVE convert_modules(_, _, _, _, _)
convert_modules(modules, i, masm_modules, an, calls) ==
    IF i > Len(modules)
    THEN Outcome(Ok(CompiledModules(masm_modules)), an, calls)
    ELSE LET c == convert_module(modules[i], an)
             log == Append(calls, ConverterCall("module", modules[i].unit))
         IN IF c.result.tag = "Err"
            THEN Outcome(Err(DriverErrorFrom(c.result.error)), c.analyses, log)
            ELSE convert_modules(modules, i + 1,
                                 Append(masm_modules, c.result.value),
                                 c.analyses, log)

\* run, were it to merge an unlinked module collection into one program
run_linking(input, an, s) ==
    LET program == IF input.tag = "Linked" THEN input.program
                   ELSE HirProgram([i \in 1..Len(input.modules) |->
                                    input.modules[i].unit])
        c == convert_program(program, an)
        log == <<ConverterCall("program", ProgramUnit)>>
    IN IF c.result.tag = "Err"
       THEN Outcome(Err(DriverErrorFrom(c.result.error)), c.analyses, log)
       ELSE Outcome(Ok(CompiledProgram(c.result.value)), c.analyses, log)

\* run, were it to answer a failed conversion with the modules compiled so far
run_partial(input, an, s) ==
    IF input.tag = "Linked"
    THEN LET c == convert_program(input.program, an)
             log == <<ConverterCall("program", ProgramUnit)>>
         IN IF c.result.tag = "Err"
            THEN Outcome(Err(DriverErrorFrom(c.result.error)), c.analyses, log)
            ELSE Outcome(Ok(CompiledProgram(c.result.value)), c.analyses, log)
    ELSE convert_modules_best_effort(input.modules, 1, <<>>, an, <<>>)

\* run, were it to refuse an unlinked collection of no modules
run_nonempty(input, an, s) ==
    IF input.tag = "Linked"
    THEN LET c == convert_program(input.program, an)
             log == <<ConverterCall("program", ProgramUnit)>>
         IN IF c.result.tag = "Err"
            THEN Outcome(Err(DriverErrorFrom(c.result.error)), c.analyses, log)
            ELSE Outcome(Ok(CompiledProgram(c.result.value)), c.analyses, log)
    ELSE IF input.modules = <<>>
    THEN Outcome(Err(DriverErrorFrom(ConversionError(ProgramUnit))), an, <<>>)
    ELSE convert_modules(input.modules, 1, <<>>, an, <<>>)

\* CodegenStage::run
run(input, an, s) ==
    IF input.tag = "Linked"
    THEN LET c == convert_program(input.program, an)
             log == <<ConverterCall("program", ProgramUnit)>>
         IN IF c.result.tag = "Err"
            THEN Outcome(Err(DriverErrorFrom(c.result.error)), c.analyses, log)
            ELSE Outcome(Ok(CompiledProgram(c.result.value)), c.analyses, log)
    ELSE convert_modules(input.modules, 1, <<>>, an, <<>>)

\* run, were it to hold the session mutably and switch code generation off
run_session_mut(input, an, s) == [s EXCEPT !.codegen = FALSE]

\* the session as run leaves it: run holds it by shared reference and has
\* no way to write to it
run_session(input, an, s) == s

(***************************************************************************)
(* The pipeline driver: it hands the artifact of one stage to the next,    *)
(* skips a stage whose enabled predicate is false and stops at the first   *)
(* failure.  The stages around CodegenStage are the linking stage, which   *)
(* decides between a linked program and an unlinked module collection,     *)
(* and emission.                                                           *)
(***************************************************************************)
Stages == <<"link", "codegen", "emit">>

\* the artifact the pipeline starts from: the translated, rewritten modules
Parsed(modules) == [tag |-> "Parsed", modules |-> modules]
Emitted(art) == [tag |-> "Emitted", of |-> art]

LinkError ==
    [kind |-> "driver", source |-> [kind |-> "link", unit |-> ProgramUnit]]

link_run(input, an, s) ==
    IF link_fails
    THEN Outcome(Err(LinkError), an, <<>>)
    ELSE IF s.link
         THEN Outcome(Ok(Linked(HirProgram([i \in 1..Len(input.modules) |->
                                            input.modules[i].unit]))),
                      an, <<>>)
         ELSE Outcome(Ok(Unlinked(input.modules)), an, <<>>)

emit_run(input, an, s) == Outcome(Ok(Emitted(input)), an, <<>>)

StageEnabled(stage, s) ==
    IF stage = "codegen" THEN enabled(s) ELSE TRUE

StageRun(stage, input, an, s) ==
    CASE stage = "link" -> link_run(input, an, s)
      [] stage = "codegen" -> run(input, an, s)
      [] stage = "emit" -> emit_run(input, an, s)

Gate(stage, on) == [stage |-> stage, enabled |-> on]

\* no instruction is under comparison, no Switch under evaluation
AstIdle ==
    /\ inst_pair = <<>> /\ inst_eq = <<>>
    /\ succ_pair = <<>> /\ succ_eq = <<>>
    /\ sw = <<>> /\ sw_chosen = <<>>

\* no GlobalValueExpr is being typed
GvIdle ==
    /\ gv_expr = <<>> /\ gv_cur = <<>> /\ gv_calls = 0 /\ gv_result = <<>>

\* no Felt is being made
FeltIdle ==
    /\ felt_in = <<>> /\ felt_out = <<>> /\ felt_lit = <<>>
    /\ felt_unchecked = <<>>
    /\ felt_pair = <<>> /\ felt_ord = <<>>

\* no CompilerTest exists
TestIdle ==
    /\ test = <<>> /\ t_calls = <<>> /\ t_log = <<>>

Init ==
    /\ session \in Sessions
    /\ failing \in SUBSET Units
    /\ link_fails \in BOOLEAN
    /\ pc = 1
    /\ artifact \in {Parsed([i \in 1..Len(ids) |-> HirModule(ids[i])]) :
                        ids \in ModuleLists}
    /\ analyses = {}
    /\ status = "running"
    /\ failure = NoError
    /\ ran = <<>>
    /\ gates = <<>>
    /\ cg = NoRun
    /\ AstIdle
    /\ GvIdle
    /\ FeltIdle
    /\ TestIdle

\* the driver passes over a disabled stage: the artifact goes on unchanged
SkipStage ==
    /\ status = "running"
    /\ pc <= Len(Stages)
    /\ ~StageEnabled(Stages[pc], session)
    /\ gates' = Append(gates, Gate(Stages[pc], FALSE))
    /\ pc' = pc + 1
    /\ UNCHANGED <<session, failing, link_fails, artifact, analyses, status,
                   failure, ran, cg, avars, gvars, fvars, tvars>>

\* the driver, were it to run a stage without asking whether it is enabled
RunStage_ungated ==
    /\ status = "running"
    /\ pc <= Len(Stages)
    /\ LET stage == Stages[pc]
           o == StageRun(stage, artifact, analyses, session)
       IN /\ gates' = Append(gates, Gate(stage, StageEnabled(stage, session)))
          /\ ran' = Append(ran, stage)
          /\ analyses' = o.analyses
          /\ cg' = IF stage = "codegen"
                   THEN [invoked |-> TRUE, input |-> artifact,
                         before |-> analyses, out |-> o]
                   ELSE cg
          /\ IF o.result.tag = "Err"
             THEN /\ status' = "failed"
                  /\ failure' = o.result.error
                  /\ UNCHANGED <<artifact, pc>>
             ELSE /\ artifact' = o.result.value
                  /\ pc' = pc + 1
                  /\ UNCHANGED <<status, failure>>
    /\ session' = IF Stages[pc] = "codegen"
                  THEN run_session(artifact, analyses, session)
                  ELSE session
    /\ UNCHANGED <<failing, link_fails, avars, gvars, fvars, tvars>>

\* the driver runs an enabled stage on the current artifact
RunStage ==
    /\ status = "running"
    /\ pc <= Len(Stages)
    /\ StageEnabled(Stages[pc], session)
    /\ LET stage == Stages[pc]
           o == StageRun(stage, artifact, analyses, session)
       IN /\ gates' = Append(gates, Gate(stage, TRUE))
          /\ ran' = Append(ran, stage)
          /\ analyses' = o.analyses
          /\ cg' = IF stage = "codegen"
                   THEN [invoked |-> TRUE, input |-> artifact,
                         before |-> analyses, out |-> o]
                   ELSE cg
          /\ IF o.result.tag = "Err"
             THEN /\ status' = "failed"
                  /\ failure' = o.result.error
                  /\ UNCHANGED <<artifact, pc>>
             ELSE /\ artifact' = o.result.value
                  /\ pc' = pc + 1
                  /\ UNCHANGED <<status, failure>>
    /\ session' = IF Stages[pc] = "codegen"
                  THEN run_session(artifact, analyses, session)
                  ELSE session
    /\ UNCHANGED <<failing, link_fails, avars, gvars, fvars, tvars>>

\* every stage was handled
Finish ==
    /\ status = "running"
    /\ pc > Len(Stages)
    /\ status' = "done"
    /\ UNCHANGED <<session, failing, link_fails, pc, artifact, analyses,
                   failure, ran, gates, cg, avars, gvars, fvars, tvars>>

Next == SkipStage \/ RunStage \/ Finish

Spec == Init /\ [][Next]_vars

(***************************************************************************)
(* Properties of CodegenStage and of the pipeline                          *)
(***************************************************************************)
\* the positions of the modules of an Unlinked input the converter rejects
FailingAt(input) ==
    {i \in 1..Len(input.modules) : input.modules[i].unit \in failing}

\* the position of the first such module, in input order
FirstFailing(input) ==
    CHOOSE i \in FailingAt(input) : \A j \in FailingAt(input) : i <= j

\* whether some conversion run was asked for fails
ConversionFails(input) ==
    IF input.tag = "Linked" THEN ProgramUnit \in failing
    ELSE FailingAt(input) # {}

\* C1: CodegenStage::run keeps the linked/unlinked duality: a Linked input
\* makes exactly one call, of the program converter, and on success yields
\* Compiled::Program of that call's result; an Unlinked input never calls the
\* program converter and on success yields Compiled::Modules.
C1_DualityPreserved ==
    cg.invoked =>
        /\ cg.input.tag \in {"Linked", "Unlinked"}
        /\ cg.input.tag = "Linked" =>
              /\ cg.out.calls = <<ConverterCall("program", ProgramUnit)>>
              /\ cg.out.result.tag = "Ok" =>
                    cg.out.result.value =
                        CompiledProgram(MasmProgram(cg.input.program.modules))
        /\ cg.input.tag = "Unlinked" =>
              /\ \A i \in DOMAIN cg.out.calls : cg.out.calls[i].conv = "module"
              /\ cg.out.result.tag = "Ok" =>
                    /\ cg.out.result.value.tag = "Modules"
                    /\ DOMAIN cg.out.result.value = {"tag", "modules"}

\* a linked program of at least two modules was compiled to a program
C1_Witness ==
    /\ cg.invoked
    /\ cg.input.tag = "Linked"
    /\ Len(cg.input.program.modules) >= 2
    /\ cg.out.result.tag = "Ok"
    /\ cg.out.result.value.tag = "Program"

\* C2: for an Unlinked input of N modules whose conversions all succeed, run
\* returns Compiled::Modules of N elements, element i being the conversion of
\* module i, and the converter was called once per module.
C2_ModulesInOrder ==
    (cg.invoked /\ cg.input.tag = "Unlinked" /\ FailingAt(cg.input) = {}) =>
        LET n == Len(cg.input.modules)
        IN /\ cg.out.result.tag = "Ok"
           /\ cg.out.result.value.tag = "Modules"
           /\ Len(cg.out.result.value.modules) = n
           /\ \A i \in 1..n :
                 cg.out.result.value.modules[i] =
                     MasmModule(cg.input.modules[i].unit)
           /\ Len(cg.out.calls) = n
           /\ \A i \in 1..n :
                 cg.out.calls[i] = ConverterCall("module", cg.input.modules[i].unit)

\* three modules, not in ascending order, were all converted
C2_Witness ==
    /\ cg.invoked
    /\ cg.input.tag = "Unlinked"
    /\ Len(cg.input.modules) = 3
    /\ cg.input.modules[1].unit > cg.input.modules[2].unit
    /\ cg.out.result.tag = "Ok"

\* C3: run is all-or-nothing: when a conversion fails the result is Err and
\* holds no Compiled value, and the converter is called on no module after
\* the first failing one.
C3_AllOrNothing ==
    (cg.invoked /\ ConversionFails(cg.input)) =>
        /\ cg.out.result.tag = "Err"
        /\ DOMAIN cg.out.result = {"tag", "error"}
        /\ cg.input.tag = "Unlinked" =>
              LET k == FirstFailing(cg.input)
              IN /\ Len(cg.out.calls) = k
                 /\ \A i \in 1..k :
                       cg.out.calls[i].unit = cg.input.modules[i].unit

\* module 2 of 3 failed: module 1 was converted, module 3 was never tried
C3_Witness ==
    /\ cg.invoked
    /\ cg.input.tag = "Unlinked"
    /\ Len(cg.input.modules) = 3
    /\ FailingAt(cg.input) = {2}
    /\ cg.out.result.tag = "Err"

\* C4: the failure run returns is the converter's failure for the first
\* failing unit in input order (the program, for a Linked input), unchanged.
C4_FirstFailurePropagated ==
    (cg.invoked /\ cg.out.result.tag = "Err") =>
        /\ ConversionFails(cg.input)
        /\ cg.out.result.error =
              DriverErrorFrom(ConversionError(
                  IF cg.input.tag = "Linked" THEN ProgramUnit
                  ELSE cg.input.modules[FirstFailing(cg.input)].unit))

\* two modules of the input fail; the failure is that of the earlier one
C4_Witness ==
    /\ cg.invoked
    /\ cg.input.tag = "Unlinked"
    /\ Cardinality(FailingAt(cg.input)) >= 2
    /\ cg.out.result.tag = "Err"

\* C5: enabled(session) is exactly session.should_codegen(): the answer the
\* driver got for CodegenStage is the session's, sessions that agree on
\* should_codegen get the same answer, and the session is never changed.
C5_EnabledIsShouldCodegen ==
    /\ [](\A i \in DOMAIN gates :
             gates[i].stage = "codegen" =>
                 gates[i].enabled = should_codegen(session))
    /\ [](\A s1, s2 \in Sessions :
             should_codegen(s1) = should_codegen(s2) =>
                 enabled(s1) = enabled(s2))
    /\ [][session' = session]_vars

\* the driver asked CodegenStage and was told it is enabled
C5_Witness ==
    /\ \E i \in DOMAIN gates : gates[i] = Gate("codegen", TRUE)
    /\ should_codegen(session)

\* C6: a stage whose enabled predicate is false never has its run invoked:
\* every stage that ran was enabled, CodegenStage::run is invoked only under
\* a session it is enabled for, and passing over a disabled stage leaves the
\* artifact and the analysis cache as they were.
C6_DisabledStageNeverRuns ==
    /\ [](\A i \in DOMAIN ran : StageEnabled(ran[i], session))
    /\ [](cg.invoked => enabled(session))
    /\ [](\A i \in DOMAIN gates :
             ~gates[i].enabled => gates[i].stage \notin Range(ran))
    /\ [][(pc' = pc + 1 /\ ~StageEnabled(Stages[pc], session)) =>
             (artifact' = artifact /\ analyses' = analyses /\ ran' = ran
              /\ cg' = cg)]_vars

\* CodegenStage was disabled and passed over: emission got the linking
\* stage's artifact
C6_Witness ==
    /\ ~enabled(session)
    /\ \E i \in DOMAIN gates : gates[i] = Gate("codegen", FALSE)
    /\ ran = <<"link", "emit">>
    /\ ~cg.invoked
    /\ artifact.tag = "Emitted"
    /\ artifact.of.tag \in {"Linked", "Unlinked"}

\* C7: once a stage's run fails, no later stage runs and none of the failed
\* stage's output reaches a later stage; the pipeline's result is that
\* failure.  For CodegenStage: when one of its conversions fails, emission
\* never runs, the artifact stays the stage's input and the pipeline fails
\* with run's failure.
C7_FailureAbortsPipeline ==
    /\ [](status = "failed" =>
             /\ failure # NoError
             /\ ran # <<>>
             /\ ran[Len(ran)] = Stages[pc]
             /\ \A i \in DOMAIN ran : i < Len(ran) => ran[i] # Stages[pc])
    /\ []((cg.invoked /\ ConversionFails(cg.input)) =>
             /\ status = "failed"
             /\ "emit" \notin Range(ran)
             /\ artifact = cg.input
             /\ cg.out.result.tag = "Err"
             /\ failure = cg.out.result.error)
    /\ [][status = "failed" => UNCHANGED vars]_vars

\* CodegenStage failed on the second module of three; emission never ran
C7_Witness ==
    /\ status = "failed"
    /\ ran = <<"link", "codegen">>
    /\ cg.invoked
    /\ cg.input.tag = "Unlinked"
    /\ Len(cg.input.modules) = 3
    /\ FailingAt(cg.input) = {2}
    /\ artifact.tag = "Unlinked"

\* C16: within one run on an Unlinked input the module converter is called
\* on the modules in input order, one call after the other: call k is on
\* module k, and it is made only when every earlier call succeeded.
C16_ModulesConvertedInOrder ==
    (cg.invoked /\ cg.input.tag = "Unlinked") =>
        /\ Len(cg.out.calls) <= Len(cg.input.modules)
        /\ \A k \in DOMAIN cg.out.calls :
              /\ cg.out.calls[k] =
                    ConverterCall("module", cg.input.modules[k].unit)
              /\ \A j \in 1..(k - 1) : cg.input.modules[j].unit \notin failing

\* three modules given in descending order were converted in that order
C16_Witness ==
    /\ cg.invoked
    /\ cg.input.tag = "Unlinked"
    /\ Len(cg.input.modules) = 3
    /\ cg.input.modules[1].unit > cg.input.modules[2].unit
    /\ cg.input.modules[2].unit > cg.input.modules[3].unit
    /\ Len(cg.out.calls) = 3

\* C17: run never changes the session, on success or on failure: the step
\* that invokes it leaves the session and the converter's verdicts as they
\* were, and what it changes in the analysis cache is what its converter
\* calls entered.
C17_RunLeavesSession ==
    [][cg' # cg =>
          /\ session' = session
          /\ failing' = failing
          /\ link_fails' = link_fails
          /\ analyses' = cg'.out.analyses
          /\ analyses' =
                analyses \cup {cg'.out.calls[k].unit : k \in DOMAIN cg'.out.calls}]_vars

\* run failed after entering analyses into the cache; code generation is
\* still requested
C17_Witness ==
    /\ cg.invoked
    /\ cg.out.result.tag = "Err"
    /\ analyses # {}
    /\ should_codegen(session)

\* C24: run on an Unlinked input of no modules succeeds with
\* Compiled::Modules of the empty list, never fails and never gives
\* Compiled::Program, calls no converter and leaves the analysis cache as it
\* was.
C24_NoModulesNoWork ==
    (cg.invoked /\ cg.input.tag = "Unlinked" /\ Len(cg.input.modules) = 0) =>
        /\ cg.out.result.tag = "Ok"
        /\ cg.out.result.value.tag = "Modules"
        /\ cg.out.result.value.modules = <<>>
        /\ cg.out.calls = <<>>
        /\ cg.out.analyses = cg.before
        /\ analyses = cg.before

\* run was given no modules while the converter rejects every unit, and
\* the pipeline went on
C24_Witness ==
    /\ cg.invoked
    /\ cg.input = Unlinked(<<>>)
    /\ failing = Units
    /\ cg.out.result.tag = "Ok"
    /\ status = "done"

(***************************************************************************)
(* The parser AST's instruction model                                      *)
(***************************************************************************)
Spans == 1..NumSpans
Values == 1..NumValues
Blocks == 1..NumBlocks
Tags == 1..NumTags
Types == {"i32", "felt"}

\* Option<T>
None == [some |-> FALSE]
Some(v) == [some |-> TRUE, value |-> v]

\* Ident: a name with the span it was written at; two Idents are equal when
\* their names are
Ident(name, span) == [name |-> name, span |-> span]
IdentEq(a, b) == a.name = b.name

\* FunctionIdent: #[derive(PartialEq)] over its two Idents
FunctionIdent(module, function) == [module |-> module, function |-> function]
FunctionIdentEq(a, b) ==
    IdentEq(a.module, b.module) /\ IdentEq(a.function, b.function)

\* Operand
OperandValue(v) == [variant |-> "Value", value |-> v]
OperandInt(i) == [variant |-> "Int", value |-> i]
OperandBigInt(i) == [variant |-> "BigInt", value |-> i]
\* #[derive(PartialEq)] for Operand: the same variant holding the same value
OperandEq(a, b) == a.variant = b.variant /\ a.value = b.value

TypedValue(id, ty) == [id |-> id, ty |-> ty]
\* #[derive(PartialEq)] for TypedValue
TypedValueEq(a, b) == a.id = b.id /\ a.ty = b.ty

Successor(span, id, args) == [span |-> span, id |-> id, args |-> args]

\* Successor's eq, were it derived and so to compare the spans too
SuccessorEq_derived(a, b) == a.span = b.span /\ a.id = b.id /\ a.args = b.args

\* impl PartialEq for Successor
SuccessorEq(a, b) == a.id = b.id /\ a.args = b.args

\* Span<T>: an item with the span it was written at; two are equal when
\* their items are
Spanned(span, item) == [span |-> span, item |-> item]

\* an arm of a Switch, Span<(u32, Successor)>
Arm(span, case, successor) == Spanned(span, <<case, successor>>)
ArmEq(a, b) ==
    a.item[1] = b.item[1] /\ SuccessorEq(a.item[2], b.item[2])

\* GlobalValueExpr
Symbol(symbol, offset) ==
    [variant |-> "Symbol", symbol |-> symbol, offset |-> offset]
Load(base, offset, ty) ==
    [variant |-> "Load", base |-> base, offset |-> offset, ty |-> ty]
IAddImm(base, offset, ty) ==
    [variant |-> "IAddImm", base |-> base, offset |-> offset, ty |-> ty]

\* #[derive(PartialEq)] for GlobalValueExpr
RECURSIVE GlobalValueExprEq(_, _)
GlobalValueExprEq(a, b) ==
    /\ a.variant = b.variant
    /\ CASE a.variant = "Symbol" ->
              IdentEq(a.symbol, b.symbol) /\ a.offset = b.offset
         [] a.variant = "Load" ->
              /\ GlobalValueExprEq(a.base, b.base)
              /\ a.offset = b.offset
              /\ a.ty = b.ty
         [] a.variant = "IAddImm" ->
              /\ GlobalValueExprEq(a.base, b.base)
              /\ a.offset = b.offset
              /\ a.ty = b.ty

\* InstType
BinaryOp(opcode, overflow, operands) ==
    [variant |-> "BinaryOp", opcode |-> opcode, overflow |-> overflow,
     operands |-> operands]
UnaryOp(opcode, overflow, operand) ==
    [variant |-> "UnaryOp", opcode |-> opcode, overflow |-> overflow,
     operand |-> operand]
Br(opcode, successor) ==
    [variant |-> "Br", opcode |-> opcode, successor |-> successor]
CondBr(opcode, cond, then_dest, else_dest) ==
    [variant |-> "CondBr", opcode |-> opcode, cond |-> cond,
     then_dest |-> then_dest, else_dest |-> else_dest]

\* Switch, were its arms kept in a map from case value to successor: one arm
\* a case value, the one given last, in ascending order of the case values
Switch_as_map(opcode, input, successors, fallback) ==
    LET cases == {successors[i].item[1] : i \in DOMAIN successors}
        last(c) == CHOOSE i \in DOMAIN successors :
                      /\ successors[i].item[1] = c
                      /\ \A j \in DOMAIN successors :
                            successors[j].item[1] = c => j <= i
        RECURSIVE ascending(_)
        ascending(left) ==
            IF left = {} THEN <<>>
            ELSE LET c == CHOOSE x \in left : \A y \in left : x <= y
                 IN <<successors[last(c)]>> \o ascending(left \ {c})
    IN [variant |-> "Switch", opcode |-> opcode, input |-> input,
        successors |-> ascending(cases), fallback |-> fallback]

Switch(opcode, input, successors, fallback) ==
    [variant |-> "Switch", opcode |-> opcode, input |-> input,
     successors |-> successors, fallback |-> fallback]
Ret(opcode, operands) ==
    [variant |-> "Ret", opcode |-> opcode, operands |-> operands]
Call(opcode, callee, operands) ==
    [variant |-> "Call", opcode |-> opcode, callee |-> callee,
     operands |-> operands]
CallIndirect(opcode, operands) ==
    [variant |-> "CallIndirect", opcode |-> opcode, operands |-> operands]
PrimOp(opcode, operands) ==
    [variant |-> "PrimOp", opcode |-> opcode, operands |-> operands]
GlobalValue(opcode, expr) ==
    [variant |-> "GlobalValue", opcode |-> opcode, expr |-> expr]

\* Vec<T>'s eq over an element eq: the same length and equal elements at
\* every position
OperandsEq(a, b) ==
    Len(a) = Len(b) /\ \A i \in 1..Len(a) : OperandEq(a[i], b[i])
ArmsEq(a, b) ==
    Len(a) = Len(b) /\ \A i \in 1..Len(a) : ArmEq(a[i], b[i])
TypedValuesEq(a, b) ==
    Len(a) = Len(b) /\ \A i \in 1..Len(a) : TypedValueEq(a[i], b[i])

\* #[derive(PartialEq)] for InstType: the same variant, and every field equal
\* by its own type's eq
InstTypeEq(a, b) ==
    /\ a.variant = b.variant
    /\ a.opcode = b.opcode
    /\ CASE a.variant = "BinaryOp" ->
              a.overflow = b.overflow /\ OperandsEq(a.operands, b.operands)
         [] a.variant = "UnaryOp" ->
              a.overflow = b.overflow /\ OperandEq(a.operand, b.operand)
         [] a.variant = "Br" -> SuccessorEq(a.successor, b.successor)
         [] a.variant = "CondBr" ->
              /\ OperandEq(a.cond, b.cond)
              /\ SuccessorEq(a.then_dest, b.then_dest)
              /\ SuccessorEq(a.else_dest, b.else_dest)
         [] a.variant = "Switch" ->
              /\ OperandEq(a.input, b.input)
              /\ ArmsEq(a.successors, b.successors)
              /\ SuccessorEq(a.fallback, b.fallback)
         [] a.variant = "Ret" -> OperandsEq(a.operands, b.operands)
         [] a.variant = "Call" ->
              FunctionIdentEq(a.callee, b.callee) /\ a.operands = b.operands
         [] a.variant = "CallIndirect" -> OperandsEq(a.operands, b.operands)
         [] a.variant = "PrimOp" -> OperandsEq(a.operands, b.operands)
         [] a.variant = "GlobalValue" -> GlobalValueExprEq(a.expr, b.expr)

\* Inst::new
Inst(span, ty, outputs) == [span |-> span, ty |-> ty, outputs |-> outputs]

\* Inst's eq, were it derived and so to compare the spans too
InstEq_derived(a, b) ==
    /\ a.span = b.span
    /\ InstTypeEq(a.ty, b.ty)
    /\ TypedValuesEq(a.outputs, b.outputs)

\* impl PartialEq for Inst
InstEq(a, b) == InstTypeEq(a.ty, b.ty) /\ TypedValuesEq(a.outputs, b.outputs)

\* the successor a Switch transfers to on an input tag: the arms are scanned
\* in order from arm i on and the first whose case value is the tag wins; the
\* fallback when none does
RECURSIVE scan_arms(_, _, _)
scan_arms(ty, tag, i) ==
    IF i > Len(ty.successors) THEN ty.fallback
    ELSE IF ty.successors[i].item[1] = tag THEN ty.successors[i].item[2]
         ELSE scan_arms(ty, tag, i + 1)

switch_target(ty, tag) == scan_arms(ty, tag, 1)

(***************************************************************************)
(* The instructions, successors and switches the equalities and the        *)
(* switch matching are applied to                                          *)
(***************************************************************************)
\* all sequences over S of length at most n
RECURSIVE SeqsUpTo(_, _)
SeqsUpTo(S, n) ==
    IF n = 0 THEN {<<>>}
    ELSE LET shorter == SeqsUpTo(S, n - 1)
         IN shorter \cup {Append(t, x) : t \in {u \in shorter : Len(u) = n - 1},
                                         x \in S}

\* every Successor of at most two arguments
Successors == [span : Spans, id : Blocks, args : SeqsUpTo(Values, 2)]

\* the successors the instructions below branch to
SomeSuccessors ==
    {Successor(sp, b, <<>>) : sp \in Spans, b \in Blocks}
        \cup {Successor(1, 1, <<1>>)}

SomeOperands == {OperandValue(1), OperandInt(1), OperandBigInt(1)}

SomeArmLists ==
    {<<>>}
        \cup {<<Arm(sp, 1, Successor(1, 1, <<>>))>> : sp \in Spans}
        \cup {<<Arm(1, 1, Successor(sp, 1, <<>>))>> : sp \in Spans}
        \cup {<<Arm(1, 1, Successor(1, 1, <<>>)),
                Arm(1, 2, Successor(1, 2, <<>>))>>,
              <<Arm(1, 2, Successor(1, 2, <<>>)),
                Arm(1, 1, Successor(1, 1, <<>>))>>,
              <<Arm(1, 1, Successor(1, 1, <<>>)),
                Arm(1, 1, Successor(1, 2, <<>>))>>}

SomeExprs ==
    LET x(sp) == Symbol(Ident("x", sp), 0)
    IN {x(sp) : sp \in Spans}
          \cup {Symbol(Ident("y", 1), 0), Symbol(Ident("x", 1), 4)}
          \cup {Load(x(sp), 0, None) : sp \in Spans}
          \cup {Load(x(1), 0, Some("i32")), Load(x(1), 4, None)}
          \cup {IAddImm(x(sp), 4, "i32") : sp \in Spans}
          \cup {IAddImm(x(1), 4, "felt"), IAddImm(Load(x(1), 0, None), 4, "i32")}

InstTypes ==
    {BinaryOp(op, ov, <<a, b>>) :
        op \in {"add", "sub"}, ov \in {None, Some("wrapping")},
        a \in {OperandValue(1)}, b \in {OperandValue(1), OperandInt(1)}}
      \cup {BinaryOp("add", None, <<OperandInt(1), OperandValue(1)>>)}
      \cup {UnaryOp("neg", None, a) : a \in SomeOperands}
      \cup {Br("br", su) : su \in SomeSuccessors}
      \cup {CondBr("condbr", OperandValue(1), t, e) :
              t \in {Successor(sp, 1, <<>>) : sp \in Spans},
              e \in {Successor(1, b, <<>>) : b \in Blocks}}
      \cup {Switch("switch", OperandValue(1), arms, Successor(1, 1, <<>>)) :
              arms \in SomeArmLists}
      \cup {Ret("ret", ops) : ops \in {<<>>, <<OperandValue(1)>>}}
      \cup {Call("call", FunctionIdent(Ident("m", sp), Ident(f, 1)), <<1>>) :
              sp \in Spans, f \in {"f", "g"}}
      \cup {CallIndirect("call", <<OperandValue(1)>>),
            PrimOp("call", <<OperandValue(1)>>)}
      \cup {GlobalValue("global", e) : e \in SomeExprs}

SomeOutputs ==
    {<<>>, <<TypedValue(1, "i32")>>, <<TypedValue(1, "felt")>>,
     <<TypedValue(1, "i32"), TypedValue(2, "i32")>>}

Insts == {Inst(sp, ty, outs) :
             sp \in Spans, ty \in InstTypes, outs \in SomeOutputs}

\* the arms a Switch under evaluation is built from
SwitchSuccessors ==
    {Successor(1, 1, <<>>), Successor(1, 1, <<1>>), Successor(1, 1, <<1, 1>>)}
SwitchFallback == Successor(1, 1, <<1, 1, 1>>)
SwitchArms == {Arm(1, c, su) : c \in Tags, su \in SwitchSuccessors}
SwitchArmLists == SeqsUpTo(SwitchArms, MaxArms)

\* a Switch under evaluation: the arms in the order given, the instruction
\* built from them, and the input tag
SwitchCase(arms, tag) ==
    [arms |-> arms,
     inst |-> Inst(1, Switch("switch", OperandValue(1), arms, SwitchFallback),
                   <<>>),
     tag |-> tag]

\* the pipeline is not part of these runs
PipelineIdle ==
    /\ session = [codegen |-> FALSE, link |-> FALSE]
    /\ failing = {}
    /\ link_fails = FALSE
    /\ pc = 1
    /\ artifact = Parsed(<<>>)
    /\ analyses = {}
    /\ status = "idle"
    /\ failure = NoError
    /\ ran = <<>>
    /\ gates = <<>>
    /\ cg = NoRun

InitInst ==
    /\ inst_pair \in Insts \X Insts
    /\ inst_eq = <<>>
    /\ succ_pair = <<>> /\ succ_eq = <<>> /\ sw = <<>> /\ sw_chosen = <<>>

InitSuccessor ==
    /\ succ_pair \in Successors \X Successors
    /\ succ_eq = <<>>
    /\ inst_pair = <<>> /\ inst_eq = <<>> /\ sw = <<>> /\ sw_chosen = <<>>

InitSwitch ==
    /\ sw \in {<<SwitchCase(arms, tag)>> :
                  arms \in SwitchArmLists, tag \in 1..(NumTags + 1)}
    /\ sw_chosen = <<>>
    /\ inst_pair = <<>> /\ inst_eq = <<>> /\ succ_pair = <<>> /\ succ_eq = <<>>

InitAst ==
    /\ PipelineIdle /\ GvIdle /\ FeltIdle /\ TestIdle
    /\ (InitInst \/ InitSuccessor \/ InitSwitch)

\* lhs == rhs on two Insts
CompareInst ==
    /\ Len(inst_pair) = 2
    /\ inst_eq = <<>>
    /\ inst_eq' = <<InstEq(inst_pair[1], inst_pair[2])>>
    /\ UNCHANGED <<pvars, gvars, fvars, tvars,
                 inst_pair, succ_pair, succ_eq, sw, sw_chosen>>

\* lhs == rhs on two Successors
CompareSuccessor ==
    /\ Len(succ_pair) = 2
    /\ succ_eq = <<>>
    /\ succ_eq' = <<SuccessorEq(succ_pair[1], succ_pair[2])>>
    /\ UNCHANGED <<pvars, gvars, fvars, tvars,
                 inst_pair, inst_eq, succ_pair, sw, sw_chosen>>

\* one evaluation of the Switch on its input tag
EvalSwitch ==
    /\ Len(sw) = 1
    /\ Len(sw_chosen) < MaxEvals
    /\ sw_chosen' = Append(sw_chosen, switch_target(sw[1].inst.ty, sw[1].tag))
    /\ UNCHANGED <<pvars, gvars, fvars, tvars,
                 inst_pair, inst_eq, succ_pair, succ_eq, sw>>

NextAst == CompareInst \/ CompareSuccessor \/ EvalSwitch

SpecAst == InitAst /\ [][NextAst]_vars

(***************************************************************************)
(* Properties of the instruction model                                     *)
(***************************************************************************)
\* what an AST node says once every source position in it is dropped
SuccessorContent(su) == [id |-> su.id, args |-> su.args]

ArmsContent(arms) ==
    [i \in 1..Len(arms) |->
        <<arms[i].item[1], SuccessorContent(arms[i].item[2])>>]

RECURSIVE ExprContent(_)
ExprContent(e) ==
    IF e.variant = "Symbol"
    THEN [variant |-> "Symbol", symbol |-> e.symbol.name, offset |-> e.offset]
    ELSE [e EXCEPT !.base = ExprContent(e.base)]

InstTypeContent(ty) ==
    CASE ty.variant = "Br" ->
           [ty EXCEPT !.successor = SuccessorContent(ty.successor)]
      [] ty.variant = "CondBr" ->
           [ty EXCEPT !.then_dest = SuccessorContent(ty.then_dest),
                      !.else_dest = SuccessorContent(ty.else_dest)]
      [] ty.variant = "Switch" ->
           [ty EXCEPT !.successors = ArmsContent(ty.successors),
                      !.fallback = SuccessorContent(ty.fallback)]
      [] ty.variant = "Call" ->
           [ty EXCEPT !.callee = <<ty.callee.module.name,
                                   ty.callee.function.name>>]
      [] ty.variant = "GlobalValue" ->
           [ty EXCEPT !.expr = ExprContent(ty.expr)]
      [] OTHER -> ty

\* C8: two Insts are equal exactly when their kinds and their outputs are
\* equal, whatever their spans: Insts of identical ty and outputs are equal
\* under any two spans, and Insts are equal if and only if their kinds say
\* the same and their outputs are the same typed values.
C8_InstEqIgnoresSpan ==
    Len(inst_eq) = 1 =>
        LET a == inst_pair[1]
            b == inst_pair[2]
        IN /\ (a.ty = b.ty /\ a.outputs = b.outputs) => inst_eq[1]
           /\ inst_eq[1] <=>
                 /\ a.ty.variant = b.ty.variant
                 /\ InstTypeContent(a.ty) = InstTypeContent(b.ty)
                 /\ a.outputs = b.outputs
           /\ \A sa, sb \in Spans :
                 InstEq([a EXCEPT !.span = sa], [b EXCEPT !.span = sb])
                     = inst_eq[1]

\* two Insts of the same kind and outputs at different spans compared equal
C8_Witness ==
    /\ Len(inst_eq) = 1
    /\ inst_pair[1].span # inst_pair[2].span
    /\ inst_pair[1].ty = inst_pair[2].ty
    /\ inst_pair[1].ty.variant = "BinaryOp"
    /\ inst_pair[1].outputs = inst_pair[2].outputs
    /\ inst_pair[1].outputs # <<>>
    /\ inst_eq[1]

\* C9: two Successors are equal exactly when they have the same target block
\* and the same arguments in the same order, whatever their spans.
C9_SuccessorEqStructural ==
    Len(succ_eq) = 1 =>
        LET a == succ_pair[1]
            b == succ_pair[2]
        IN /\ succ_eq[1] <=> SuccessorContent(a) = SuccessorContent(b)
           /\ succ_eq[1] <=>
                 /\ a.id = b.id
                 /\ Len(a.args) = Len(b.args)
                 /\ \A i \in 1..Len(a.args) : a.args[i] = b.args[i]

\* two Successors to the same block with the same two arguments, written
\* at different spans, compared equal
C9_Witness ==
    /\ Len(succ_eq) = 1
    /\ succ_pair[1].span # succ_pair[2].span
    /\ succ_pair[1].id = succ_pair[2].id
    /\ Len(succ_pair[1].args) = 2
    /\ succ_pair[1].args = succ_pair[2].args
    /\ succ_eq[1]

\* the positions of the arms, in the order given, whose case value is tag
MatchingArms(arms, tag) == {i \in 1..Len(arms) : arms[i].item[1] = tag}

\* C10: every evaluation of a Switch chooses the successor of the first arm,
\* in the order the arms were given, whose case value equals the input tag,
\* duplicates or not, and the fallback when no arm's case value does.
C10_SwitchFirstMatchWins ==
    \A n \in 1..Len(sw_chosen) :
        LET arms == sw[1].arms
            hits == MatchingArms(arms, sw[1].tag)
        IN sw_chosen[n] =
              IF hits = {} THEN SwitchFallback
              ELSE arms[CHOOSE i \in hits : \A j \in hits : i <= j].item[2]

\* the Switch [(1,A), (2,B), (1,C)] was evaluated twice on tag 1 and chose A
\* both times
C10_Witness ==
    /\ Len(sw) = 1
    /\ sw[1].arms = <<Arm(1, 1, Successor(1, 1, <<>>)),
                      Arm(1, 2, Successor(1, 1, <<1>>)),
                      Arm(1, 1, Successor(1, 1, <<1, 1>>))>>
    /\ sw[1].tag = 1
    /\ sw_chosen = <<Successor(1, 1, <<>>), Successor(1, 1, <<>>)>>

(***************************************************************************)
(* GlobalValueExpr::ty                                                     *)
(***************************************************************************)
\* the expression trees of at most d nodes in depth
RECURSIVE GlobalValueExprs(_)
GlobalValueExprs(d) ==
    LET symbols == {Symbol(Ident("x", 1), 0), Symbol(Ident("y", 1), 4)}
        loads == {<<0, None>>, <<4, None>>, <<0, Some("i32")>>,
                  <<4, Some("felt")>>}
        iaddimms == {<<0, "i32">>, <<4, "i32">>, <<4, "felt">>}
    IN IF d <= 1 THEN symbols
       ELSE LET bases == GlobalValueExprs(d - 1)
            IN symbols
                 \cup {Load(b, l[1], l[2]) : b \in bases, l \in loads}
                 \cup {IAddImm(b, i[1], i[2]) : b \in bases, i \in iaddimms}

\* what one invocation of ty() does at node e: it returns a value, or it
\* calls ty() on another node and returns whatever that call returns
Return(v) == [recurse |-> FALSE, value |-> v]
Recurse(e) == [recurse |-> TRUE, next |-> e]

\* the match, were the Symbol arm to answer with a type
ty_arm_symbol_typed(e) ==
    CASE e.variant = "Symbol" -> Return(Some("i32"))
      [] e.variant = "Load" -> Return(e.ty)
      [] e.variant = "IAddImm" -> Recurse(e.base)

\* the match, were the Load arm to look through to its base
ty_arm_load_base(e) ==
    CASE e.variant = "Symbol" -> Return(None)
      [] e.variant = "Load" -> Recurse(e.base)
      [] e.variant = "IAddImm" -> Recurse(e.base)

\* the match, were the IAddImm arm to stop without asking its base
ty_arm_iaddimm_none(e) ==
    CASE e.variant = "Symbol" -> Return(None)
      [] e.variant = "Load" -> Return(e.ty)
      [] e.variant = "IAddImm" -> Return(None)

\* the match, were the IAddImm arm to answer with the node's own ty field
ty_arm_iaddimm_own(e) ==
    CASE e.variant = "Symbol" -> Return(None)
      [] e.variant = "Load" -> Return(e.ty)
      [] e.variant = "IAddImm" -> Return(Some(e.ty))

\* the match, were the IAddImm arm to call ty() on the node itself
ty_arm_self(e) ==
    CASE e.variant = "Symbol" -> Return(None)
      [] e.variant = "Load" -> Return(e.ty)
      [] e.variant = "IAddImm" -> Recurse(e)

\* the match of GlobalValueExpr::ty
ty_arm(e) ==
    CASE e.variant = "Symbol" -> Return(None)
      [] e.variant = "Load" -> Return(e.ty)
      [] e.variant = "IAddImm" -> Recurse(e.base)

InitGv ==
    /\ PipelineIdle
    /\ AstIdle
    /\ FeltIdle
    /\ TestIdle
    /\ gv_expr \in {<<e>> : e \in GlobalValueExprs(MaxDepth)}
    /\ gv_cur = <<>>
    /\ gv_calls = 0
    /\ gv_result = <<>>

\* expr.ty() is called
TyCall ==
    /\ Len(gv_expr) = 1
    /\ gv_cur = <<>>
    /\ gv_result = <<>>
    /\ gv_cur' = gv_expr
    /\ UNCHANGED <<pvars, avars, fvars, tvars, gv_expr, gv_calls, gv_result>>

\* the running invocation matches on its node: a Symbol or a Load ends the
\* whole call with a value, an IAddImm calls ty() on its base
TyMatch ==
    /\ Len(gv_cur) = 1
    /\ LET arm == ty_arm(gv_cur[1])
       IN IF arm.recurse
          THEN /\ gv_cur' = <<arm.next>>
               /\ gv_calls' = gv_calls + 1
               /\ UNCHANGED gv_result
          ELSE /\ gv_cur' = <<>>
               /\ gv_result' = <<arm.value>>
               /\ UNCHANGED gv_calls
    /\ UNCHANGED <<pvars, avars, fvars, tvars, gv_expr>>

NextGv == TyCall \/ TyMatch

SpecGv == InitGv /\ [][NextGv]_vars

(***************************************************************************)
(* Properties of GlobalValueExpr::ty                                       *)
(***************************************************************************)
\* the first node under e that is not an IAddImm
RECURSIVE Innermost(_)
Innermost(e) == IF e.variant = "IAddImm" THEN Innermost(e.base) ELSE e

\* the type a Symbol or a Load has by itself
LeafType(e) == IF e.variant = "Load" THEN e.ty ELSE None

\* the number of nodes from e down to its Symbol
RECURSIVE Depth(_)
Depth(e) == IF e.variant = "Symbol" THEN 1 ELSE 1 + Depth(e.base)

\* the number of IAddImm nodes above the first node that is not one
RECURSIVE ChainLength(_)
ChainLength(e) ==
    IF e.variant = "IAddImm" THEN 1 + ChainLength(e.base) ELSE 0

\* e and every node below it
RECURSIVE Nodes(_)
Nodes(e) == IF e.variant = "Symbol" THEN {e} ELSE {e} \cup Nodes(e.base)

\* C11: ty() of a Symbol is None, whatever its symbol and offset.
C11_SymbolHasNoType ==
    (Len(gv_result) = 1 /\ gv_expr[1].variant = "Symbol") =>
        gv_result[1] = None

\* ty() returned on the symbol y at offset 4
C11_Witness ==
    /\ Len(gv_result) = 1
    /\ gv_expr[1] = Symbol(Ident("y", 1), 4)
    /\ gv_result[1] = None

\* C12: ty() of a Load is the Load's own declared type, Some(T) or None,
\* whatever its offset and whatever the type of its base.
C12_LoadHasDeclaredType ==
    (Len(gv_result) = 1 /\ gv_expr[1].variant = "Load") =>
        /\ gv_result[1] = gv_expr[1].ty
        /\ gv_calls = 0

\* a Load that leaves its type open, over a base of type i32, has no type
C12_Witness ==
    /\ Len(gv_result) = 1
    /\ gv_expr[1].variant = "Load"
    /\ gv_expr[1].ty = None
    /\ gv_expr[1].base.variant = "Load"
    /\ gv_expr[1].base.ty = Some("i32")
    /\ gv_result[1] = None

\* C13: ty() of an IAddImm is the type of the innermost node of its chain
\* that is not an IAddImm: None for a Symbol, the declared type for a Load,
\* whatever the offsets on the way.
C13_IAddImmInheritsBaseType ==
    (Len(gv_result) = 1 /\ gv_expr[1].variant = "IAddImm") =>
        gv_result[1] = LeafType(Innermost(gv_expr[1]))

\* a chain of three IAddImm over a Load of type felt has type felt
C13_Witness ==
    /\ Len(gv_result) = 1
    /\ ChainLength(gv_expr[1]) = 3
    /\ Innermost(gv_expr[1]).variant = "Load"
    /\ Innermost(gv_expr[1]).ty = Some("felt")
    /\ gv_result[1] = Some("felt")

\* C14, as claimed: an IAddImm node carries only a base and an offset and
\* declares no type of its own; its type is the one inherited from its base.
C14_IAddImmCarriesNoType ==
    Len(gv_result) = 1 =>
        /\ \A n \in Nodes(gv_expr[1]) :
              n.variant = "IAddImm" => DOMAIN n = {"variant", "base", "offset"}
        /\ gv_expr[1].variant = "IAddImm" =>
              gv_result[1] = LeafType(Innermost(gv_expr[1].base))

\* C14, amended: an IAddImm node carries a base, an offset and a type ty of
\* its own, always present, and a Load an optional one; ty() never answers
\* with an IAddImm's own ty: the type of an IAddImm is the type of its
\* base whatever its ty field says.
C14_IAddImmTypeIsNeverRead ==
    /\ \A i \in DOMAIN gv_expr : \A n \in Nodes(gv_expr[i]) :
          /\ n.variant = "IAddImm" =>
                /\ DOMAIN n = {"variant", "base", "offset", "ty"}
                /\ n.ty \in Types
          /\ n.variant = "Load" =>
                /\ DOMAIN n = {"variant", "base", "offset", "ty"}
                /\ n.ty \in {None} \cup {Some(t) : t \in Types}
    /\ (Len(gv_result) = 1 /\ gv_expr[1].variant = "IAddImm") =>
          gv_result[1] = LeafType(Innermost(gv_expr[1].base))

\* an IAddImm whose own ty is felt, over a Load of type i32, has type i32
C14_Witness ==
    /\ Len(gv_result) = 1
    /\ gv_expr[1].variant = "IAddImm"
    /\ gv_expr[1].ty = "felt"
    /\ gv_expr[1].base.variant = "Load"
    /\ gv_expr[1].base.ty = Some("i32")
    /\ gv_result[1] = Some("i32")

\* C15: ty() terminates on every finite tree: it calls itself only at an
\* IAddImm, on its base, so each call is one node further down, the calls
\* number the IAddImm nodes above the first Symbol or Load, at most the
\* depth of the tree, and a call that has not returned can always go on.
C15_TyTerminates ==
    Len(gv_expr) = 1 =>
        /\ gv_calls <= Depth(gv_expr[1])
        /\ Len(gv_cur) = 1 =>
              /\ gv_cur[1] \in Nodes(gv_expr[1])
              /\ gv_calls + Depth(gv_cur[1]) <= Depth(gv_expr[1])
              /\ gv_calls + ChainLength(gv_cur[1]) = ChainLength(gv_expr[1])
        /\ Len(gv_result) = 0 => ENABLED (TyCall \/ TyMatch)
        /\ Len(gv_result) = 1 =>
              /\ gv_cur = <<>>
              /\ gv_calls = ChainLength(gv_expr[1])

\* ty() returned from a tree of the greatest depth that is one chain of
\* IAddImm over a Symbol
C15_Witness ==
    /\ Len(gv_result) = 1
    /\ Depth(gv_expr[1]) = MaxDepth
    /\ gv_calls = MaxDepth - 1

(***************************************************************************)
(* Felt (sdk/prelude/src/intrinsics/felt.rs)                               *)
(***************************************************************************)
\* a u64 is held as its four 16-bit limbs, the most significant first
Limb == 0..65535
EdgeLimbs == {l \in Limb : l < NearEdge \/ l > 65535 - NearEdge}
U64s == EdgeLimbs \X EdgeLimbs \X EdgeLimbs \X EdgeLimbs

\* a > b and a <= b on u64
u64_gt(a, b) ==
    \E i \in 1..4 : a[i] > b[i] /\ \A j \in 1..(i - 1) : a[j] = b[j]
u64_le(a, b) == ~u64_gt(a, b)

\* Felt::M = 0xffffffff00000001
M == <<65535, 65535, 0, 1>>

\* FeltError
InvalidValue == "InvalidValue"

\* Felt::from_u64_unchecked hands the value to the VM's intrinsic, which
\* gives the Felt of it
from_u64_unchecked(value) == [inner |-> value]

\* what a call did: its outcome and the arguments it called
\* from_u64_unchecked with
Did(outcome, unchecked) == [outcome |-> outcome, unchecked |-> unchecked]

new_exclusive(value) ==
    IF ~u64_le(value, M) \/ value = M
    THEN Did(Err(InvalidValue), <<>>)
    ELSE Did(Ok(from_u64_unchecked(value)), <<value>>)

\* Felt::new
new(value) ==
    IF u64_gt(value, M)
    THEN Did(Err(InvalidValue), <<>>)
    ELSE Did(Ok(from_u64_unchecked(value)), <<value>>)

\* felt!(value): the assertion fails the build, else the literal is the Felt
felt(value) ==
    IF u64_le(value, M)
    THEN Did([panic |-> FALSE, value |-> from_u64_unchecked(value)],
             <<value>>)
    ELSE Did([panic |-> TRUE], <<>>)

\* the intrinsics gt, lt, ge, le of the VM: 1 when the first argument is
\* above, below, at least, at most the second; 0 when it is not
extern_gt(a, b) == IF u64_gt(a.inner, b.inner) THEN 1 ELSE 0
extern_lt(a, b) == IF u64_gt(b.inner, a.inner) THEN 1 ELSE 0
extern_ge(a, b) == IF u64_le(b.inner, a.inner) THEN 1 ELSE 0
extern_le(a, b) == IF u64_le(a.inner, b.inner) THEN 1 ELSE 0

\* impl PartialOrd for Felt
gt(self, other) == extern_gt(self, other) # 0
ge(self, other) == extern_ge(self, other) # 0
lt(self, other) == extern_lt(other, self) # 0
le(self, other) == extern_le(other, self) # 0

\* impl Ord for Felt
cmp(self, other) ==
    IF lt(self, other) THEN "Less"
    ELSE IF gt(self, other) THEN "Greater"
    ELSE "Equal"

partial_cmp(self, other) == Some(cmp(self, other))

\* the Felts under comparison: those of the u64s below 2^32 of the inputs
Felts == {from_u64_unchecked(<<0, 0, h, l>>) : h \in EdgeLimbs, l \in EdgeLimbs}

\* a u64 is given to make a Felt from
InitNew ==
    /\ felt_in \in {<<v>> : v \in U64s}
    /\ felt_pair = <<>>

\* two Felts are given to compare
InitCompare ==
    /\ felt_in = <<>>
    /\ felt_pair \in Felts \X Felts

InitFelt ==
    /\ PipelineIdle /\ AstIdle /\ GvIdle /\ TestIdle
    /\ InitNew \/ InitCompare
    /\ felt_out = <<>>
    /\ felt_lit = <<>>
    /\ felt_unchecked = <<>>
    /\ felt_ord = <<>>

\* Felt::new(value) is called
New ==
    /\ Len(felt_in) = 1
    /\ felt_out = <<>>
    /\ LET did == new(felt_in[1])
       IN /\ felt_out' = <<did.outcome>>
          /\ felt_unchecked' = felt_unchecked \o did.unchecked
    /\ UNCHANGED <<pvars, avars, gvars, tvars, felt_in, felt_lit, felt_pair,
                   felt_ord>>

\* felt!(value) is built
Literal ==
    /\ Len(felt_in) = 1
    /\ felt_lit = <<>>
    /\ LET did == felt(felt_in[1])
       IN /\ felt_lit' = <<did.outcome>>
          /\ felt_unchecked' = felt_unchecked \o did.unchecked
    /\ UNCHANGED <<pvars, avars, gvars, tvars, felt_in, felt_out, felt_pair,
                   felt_ord>>

\* a is compared with b by each method of PartialOrd and Ord, and b with a
Compare ==
    /\ Len(felt_pair) = 2
    /\ felt_ord = <<>>
    /\ LET a == felt_pair[1]
           b == felt_pair[2]
       IN felt_ord' = <<[lt |-> lt(a, b), le |-> le(a, b), gt |-> gt(a, b),
                         ge |-> ge(a, b), cmp |-> cmp(a, b),
                         partial_cmp |-> partial_cmp(a, b),
                         rev |-> cmp(b, a)]>>
    /\ UNCHANGED <<pvars, avars, gvars, tvars, felt_in, felt_out, felt_lit,
                   felt_unchecked, felt_pair>>

NextFelt == New \/ Literal \/ Compare

SpecFelt == InitFelt /\ [][NextFelt]_vars

(***************************************************************************)
(* Properties of Felt                                                      *)
(***************************************************************************)
\* v <= 2^64 - 2^32 + 1 = (2^32 - 1) * 2^32 + 1, read off the limbs of v:
\* the upper half is below 2^32 - 1, or it is 2^32 - 1 and the lower half is
\* at most 1
InRange(v) ==
    \/ v[1] < 65535
    \/ v[2] < 65535
    \/ (v[3] = 0 /\ v[4] <= 1)

\* C18: Felt::new(v) is Err(InvalidValue) when v is above 2^64 - 2^32 + 1 and
\* Ok of from_u64_unchecked(v) when it is not; felt! asserts the same bound;
\* from_u64_unchecked is never called with a value above the bound.
C18_NewChecksRange ==
    /\ Len(felt_out) = 1 =>
          IF InRange(felt_in[1])
          THEN /\ felt_out[1].tag = "Ok"
               /\ felt_out[1].value.inner = felt_in[1]
          ELSE /\ felt_out[1].tag = "Err"
               /\ felt_out[1].error = "InvalidValue"
    /\ Len(felt_lit) = 1 => (felt_lit[1].panic <=> ~InRange(felt_in[1]))
    /\ \A i \in DOMAIN felt_unchecked : InRange(felt_unchecked[i])
    /\ Len(felt_unchecked) =
          IF Len(felt_in) = 1 /\ InRange(felt_in[1])
          THEN Len(felt_out) + Len(felt_lit)
          ELSE 0

\* Felt::new refused 2^64 - 2^32 + 2, the least value out of range, and
\* felt! refused it too
C18_Witness ==
    /\ felt_in = << <<65535, 65535, 0, 2>> >>
    /\ Len(felt_out) = 1 /\ felt_out[1].tag = "Err"
    /\ Len(felt_lit) = 1 /\ felt_lit[1].panic
    /\ felt_unchecked = <<>>

(***************************************************************************)
(* CompilerTest (tests/integration/src/compiler_test.rs)                   *)
(***************************************************************************)
\* CompilerTestSource, by variant
Sources == {"Rust", "RustCargo", "RustCargoLib", "RustCargoComponent"}

\* HirArtifact
Program(p) == [variant |-> "Program", inner |-> p]
Module(m) == [variant |-> "Module", inner |-> m]
Component(c) == [variant |-> "Component", inner |-> c]

\* how a call ended: it returned a value, or it panicked
Returned(v) == [panic |-> FALSE, value |-> v]
Panic(message) == [panic |-> TRUE, message |-> message]
Unit == "()"

\* one call into the compiler: the function called, the method of
\* CompilerTest that made it and the index in t_log of the test's operation
\* under which it was made
CompilerCall(fn, by, k) == [fn |-> fn, by |-> by, op |-> k]

\* what the compiler and the expected files do under one operation: the step
\* of it that fails if reached, whether a translated component comes out
\* without modules, whether the expected file matches
FailPoints == {"none", "translate", "rewrites", "with_module", "link",
               "compile", "stdlib", "assemble"}
Envs == [fail : FailPoints, empty : BOOLEAN, matches : BOOLEAN]

\* what a method did: the test it leaves, the calls made so far, its outcome
Ran(t, calls, ret) == [test |-> t, calls |-> calls, ret |-> ret]

\* how many of the calls so far went to one of the functions fns
Count(calls, fns) == Cardinality({i \in DOMAIN calls : calls[i].fn \in fns})

Translators == {"translate_component", "translate_module_as_component",
                "translate_module"}
Rewrites_treeify_first == <<"Treeify", "SplitCriticalEdges", "InlineBlocks">>

\* the passes pushed on the RewriteSet, in the order they are pushed
Rewrites == <<"SplitCriticalEdges", "Treeify", "InlineBlocks">>

\* the constructors' results: source, entrypoint (none or the one function)
\* and the two caches empty
CompilerTest(source, entrypoint) ==
    [source |-> source, entrypoint |-> entrypoint, hir |-> <<>>,
     ir_masm |-> <<>>]
Entrypoint == FunctionIdent(Ident("test", 1), Ident("entrypoint", 1))
Constructed ==
    {CompilerTest("RustCargoComponent", <<>>),
     CompilerTest("RustCargoLib", <<>>),
     CompilerTest("RustCargoLib", <<Entrypoint>>),
     CompilerTest("RustCargo", <<Entrypoint>>),
     CompilerTest("Rust", <<>>),
     CompilerTest("Rust", <<Entrypoint>>)}

\* CompilerTest::wasm_to_ir, as operation k of the test: every artifact is a
\* new Box, told from the earlier ones by the number of its translation
wasm_to_ir(t, calls, k, env) ==
    LET by == "wasm_to_ir"
        serial == Count(calls, Translators) + 1
        component(fn, message) ==
            LET c1 == Append(calls, CompilerCall(fn, by, k))
                modules == IF env.empty THEN <<>>
                           ELSE <<[wasm |-> serial, rewrites |-> <<>>]>>
            IN IF env.fail = "translate"
               THEN Ran(t, c1, Panic(message))
               ELSE Ran(t, c1, Returned(Component([box |-> serial,
                                                  modules |-> modules])))
    IN CASE t.source = "RustCargoComponent" ->
              component("translate_component",
                        "Failed to translate Wasm to IR component")
         [] t.source = "RustCargoLib" ->
              component("translate_module_as_component",
                        "Failed to translate Wasm module to IR component")
         [] OTHER ->
              LET c1 == Append(calls, CompilerCall("translate_module", by, k))
                  c2 == c1 \o [i \in DOMAIN Rewrites |->
                                  CompilerCall(Rewrites[i], by, k)]
                  ir_module == [wasm |-> serial, rewrites |-> Rewrites]
                  c3 == Append(c2, CompilerCall("with_module", by, k))
                  c4 == IF t.entrypoint # <<>>
                        THEN Append(c3, CompilerCall("with_entrypoint", by, k))
                        ELSE c3
                  c5 == Append(c4, CompilerCall("link", by, k))
                  hir_program == [box |-> serial, modules |-> <<ir_module>>,
                                  entrypoint |-> t.entrypoint]
              IN IF env.fail = "translate"
                 THEN Ran(t, c1, Panic("Failed to translate Wasm to IR module"))
                 ELSE IF env.fail = "rewrites"
                 THEN Ran(t, c2, Panic("Failed to apply rewrites"))
                 ELSE IF env.fail = "with_module"
                 THEN Ran(t, c3, Panic("unwrap"))
                 ELSE IF env.fail = "link"
                 THEN Ran(t, c5, Panic("Failed to link IR program"))
                 ELSE Ran(t, c5, Returned(Program(hir_program)))

hir_always(t, calls, k, env) ==
    LET w == wasm_to_ir(t, calls, k, env)
    IN IF w.ret.panic
       THEN w
       ELSE Ran([t EXCEPT !.hir = <<w.ret.value>>], w.calls, w.ret)

\* CompilerTest::hir
hir(t, calls, k, env) ==
    IF t.hir = <<>>
    THEN LET w == wasm_to_ir(t, calls, k, env)
         IN IF w.ret.panic
            THEN w
            ELSE Ran([t EXCEPT !.hir = <<w.ret.value>>], w.calls, w.ret)
    ELSE Ran(t, calls, Returned(t.hir[1]))

\* CompilerTest::expect_ir
expect_ir(t, calls, k, env) ==
    LET h == hir(t, calls, k, env)
        compared == IF env.matches
                    THEN Ran(h.test, h.calls, Returned(Unit))
                    ELSE Ran(h.test, h.calls, Panic("assert_eq"))
    IN IF h.ret.panic
       THEN h
       ELSE IF h.ret.value.variant = "Program"
               /\ h.ret.value.inner.modules = <<>>
       THEN Ran(h.test, h.calls, Panic("no module in IR program"))
       ELSE compared

\* MasmCompiler::compile and freeze: the program compiled from a linked hir
\* program, in a new Arc told from the earlier ones by its number
Frozen(hir_program, arc) == [masm_of |-> hir_program, arc |-> arc]

ir_masm_program_uncached(t, calls, k, env) ==
    LET by == "ir_masm_program"
        c0 == Append(calls, CompilerCall("MasmCompiler::new", by, k))
        c1 == Append(c0, CompilerCall("compile", by, k))
        frozen == Frozen(t.hir[1].inner, Count(calls, {"compile"}) + 1)
    IN IF t.hir = <<>>
       THEN Ran(t, c0, Panic("IR is not compiled"))
       ELSE Ran([t EXCEPT !.hir = <<>>, !.ir_masm = <<frozen>>], c1,
                Returned(frozen))

ir_masm_program_keeps_hir(t, calls, k, env) ==
    LET compiled == ir_masm_program_uncached(t, calls, k, env)
    IN IF t.ir_masm # <<>>
       THEN Ran(t, calls, Returned(t.ir_masm[1]))
       ELSE IF compiled.ret.panic
       THEN compiled
       ELSE Ran([compiled.test EXCEPT !.hir = t.hir], compiled.calls,
                compiled.ret)

\* CompilerTest::ir_masm_program
ir_masm_program(t, calls, k, env) ==
    LET by == "ir_masm_program"
        c0 == Append(calls, CompilerCall("MasmCompiler::new", by, k))
        taken == [t EXCEPT !.hir = <<>>]
        arc == Count(calls, {"compile"}) + 1
        compile(hir_program, cs) ==
            LET c == Append(cs, CompilerCall("compile", by, k))
                frozen == Frozen(hir_program, arc)
            IN IF env.fail = "compile"
               THEN Ran(taken, c, Panic("unwrap"))
               ELSE Ran([taken EXCEPT !.ir_masm = <<frozen>>], c,
                        Returned(frozen))
        from_component(hir_component) ==
            LET c1 == Append(c0, CompilerCall("to_modules", by, k))
                c2 == Append(c1, CompilerCall("with_module", by, k))
                c3 == IF t.entrypoint # <<>>
                      THEN Append(c2, CompilerCall("with_entrypoint", by, k))
                      ELSE c2
                c4 == Append(c3, CompilerCall("link", by, k))
                hir_program == [box |-> hir_component.box,
                                modules |-> <<hir_component.modules[1]>>,
                                entrypoint |-> t.entrypoint]
            IN IF hir_component.modules = <<>>
               THEN Ran(taken, c1, Panic("unwrap"))
               ELSE IF env.fail = "with_module"
               THEN Ran(taken, c2, Panic("unwrap"))
               ELSE IF env.fail = "link"
               THEN Ran(taken, c4, Panic("Failed to link IR program"))
               ELSE compile(hir_program, c4)
    IN IF t.ir_masm = <<>>
       THEN IF t.hir = <<>>
            THEN Ran(t, c0, Panic("IR is not compiled"))
            ELSE CASE t.hir[1].variant = "Program" ->
                        compile(t.hir[1].inner, c0)
                   [] t.hir[1].variant = "Component" ->
                        from_component(t.hir[1].inner)
                   [] t.hir[1].variant = "Module" ->
                        Ran(taken, c0,
                            Panic("Module to MASM compilation is not implemented yet"))
       ELSE Ran(t, calls, Returned(t.ir_masm[1]))

\* CompilerTest::expect_masm
expect_masm(t, calls, k, env) ==
    LET program == ir_masm_program(t, calls, k, env)
    IN IF program.ret.panic
       THEN program
       ELSE IF env.matches
       THEN Ran(program.test, program.calls, Returned(Unit))
       ELSE Ran(program.test, program.calls, Panic("assert_eq"))

\* CompilerTest::vm_masm_program
vm_masm_program(t, calls, k, env) ==
    LET by == "vm_masm_program"
        c0 == Append(calls, CompilerCall("with_library", by, k))
        program == ir_masm_program(t, c0, k, env)
        c1 == Append(program.calls, CompilerCall("assemble", by, k))
    IN IF env.fail = "stdlib"
       THEN Ran(t, c0, Panic("Failed to load stdlib"))
       ELSE IF program.ret.panic
       THEN program
       ELSE IF env.fail = "assemble"
       THEN Ran(program.test, c1, Panic("VM Assembler failed to compile"))
       ELSE Ran(program.test, c1, Returned([core_of |-> program.ret.value]))

\* the test was constructed and nothing was called on it yet
InitTest ==
    /\ PipelineIdle /\ AstIdle /\ GvIdle /\ FeltIdle
    /\ test \in {<<t>> : t \in Constructed}
    /\ t_calls = <<>>
    /\ t_log = <<>>

\* a method can be called while the test has not panicked
Callable ==
    /\ Len(test) = 1
    /\ Len(t_log) < MaxOps
    /\ \A i \in DOMAIN t_log : ~t_log[i].ret.panic

\* the test takes the state the method left and the log its outcome
Called(op, done) ==
    /\ test' = <<done.test>>
    /\ t_calls' = done.calls
    /\ t_log' = Append(t_log, [op |-> op, ret |-> done.ret])
    /\ UNCHANGED <<pvars, avars, gvars, fvars>>

Hir ==
    /\ Callable
    /\ \E env \in Envs :
          Called("hir", hir(test[1], t_calls, Len(t_log) + 1, env))

ExpectIr ==
    /\ Callable
    /\ \E env \in Envs :
          Called("expect_ir", expect_ir(test[1], t_calls, Len(t_log) + 1, env))

ExpectMasm ==
    /\ Callable
    /\ \E env \in Envs :
          Called("expect_masm",
                 expect_masm(test[1], t_calls, Len(t_log) + 1, env))

VmMasmProgram ==
    /\ Callable
    /\ \E env \in Envs :
          Called("vm_masm_program",
                 vm_masm_program(test[1], t_calls, Len(t_log) + 1, env))

IrMasmProgram ==
    /\ Callable
    /\ \E env \in Envs :
          Called("ir_masm_program",
                 ir_masm_program(test[1], t_calls, Len(t_log) + 1, env))

NextTest == Hir \/ ExpectIr \/ ExpectMasm \/ VmMasmProgram \/ IrMasmProgram

SpecTest == InitTest /\ [][NextTest]_vars

(***************************************************************************)
(* Properties of CompilerTest                                              *)
(***************************************************************************)
\* the step is a call of the method op on the test
IsCall(op) ==
    /\ Len(t_log') = Len(t_log) + 1
    /\ t_log'[Len(t_log')].op = op

\* the calls into the compiler that the test's k-th operation made from the
\* method by
CallsOf(calls, k, by) ==
    {i \in DOMAIN calls : calls[i].op = k /\ calls[i].by = by}

\* C19: hir() compiles the Wasm to IR only if no IR is cached: with hir
\* already Some it returns the cached artifact and wasm_to_ir is not called;
\* with hir None wasm_to_ir is called; once hir() has returned, the hir field
\* is Some and holds what was returned.
C19_HirIsCached ==
    [][IsCall("hir") =>
          LET k == Len(t_log')
              ret == t_log'[k].ret
          IN /\ test[1].hir # <<>> =>
                   /\ ~ret.panic
                   /\ ret.value = test[1].hir[1]
                   /\ t_calls' = t_calls
                   /\ test' = test
             /\ test[1].hir = <<>> =>
                   \E i \in CallsOf(t_calls', k, "wasm_to_ir") :
                      t_calls'[i].fn \in Translators
             /\ ~ret.panic =>
                   /\ test'[1].hir # <<>>
                   /\ test'[1].hir[1] = ret.value]_vars

\* hir() was called twice and returned both times: the Wasm was translated
\* once and the second call returned the artifact of the first
C19_Witness ==
    /\ Len(t_log) = 2
    /\ t_log[1].op = "hir" /\ ~t_log[1].ret.panic
    /\ t_log[2].op = "hir" /\ ~t_log[2].ret.panic
    /\ t_log[2].ret.value = t_log[1].ret.value
    /\ Count(t_calls, Translators) = 1
    /\ test[1].hir = <<t_log[1].ret.value>>

\* the methods that call ir_masm_program
MasmOps == {"ir_masm_program", "expect_masm", "vm_masm_program"}

\* C20: once ir_masm_program() has succeeded, every later call of it,
\* whatever was called on the test in between, returns the same cached MASM
\* program and makes no call of the MASM compiler or of the linker.
C20_MasmIsCachedForGood ==
    \A i, j \in DOMAIN t_log :
       (/\ i < j
        /\ t_log[i].op \in MasmOps /\ ~t_log[i].ret.panic
        /\ t_log[j].op \in MasmOps) =>
          /\ CallsOf(t_calls, j, "ir_masm_program") = {}
          /\ t_log[j].op = "ir_masm_program" =>
                /\ ~t_log[j].ret.panic
                /\ test[1].ir_masm = <<t_log[j].ret.value>>
                /\ t_log[i].op = "ir_masm_program" =>
                      t_log[j].ret.value = t_log[i].ret.value

\* ir_masm_program() succeeded, then hir() translated and linked the Wasm
\* again, and the next ir_masm_program() returned the program of the first
\* without compiling
C20_Witness ==
    /\ Len(t_log) = 4
    /\ \A i \in 1..4 : ~t_log[i].ret.panic
    /\ t_log[1].op = "hir"
    /\ t_log[2].op = "ir_masm_program"
    /\ t_log[3].op = "hir"
    /\ \E c \in CallsOf(t_calls, 3, "wasm_to_ir") : t_calls[c].fn = "link"
    /\ t_log[4].op = "ir_masm_program"
    /\ t_log[4].ret.value = t_log[2].ret.value
    /\ Count(t_calls, {"compile"}) = 1
    /\ test[1].hir # <<>>

\* the functions wasm_to_ir called under the test's k-th operation, in order
WasmToIrCalls(k) ==
    LET mine(c) == c.op = k /\ c.by = "wasm_to_ir"
        made == SelectSeq(t_calls, mine)
    IN [i \in DOMAIN made |-> made[i].fn]

\* what wasm_to_ir is said to call for a test of this source and entrypoint
SaidCalls(source, entrypoint) ==
    CASE source = "RustCargoComponent" -> <<"translate_component">>
      [] source = "RustCargoLib" -> <<"translate_module_as_component">>
      [] OTHER ->
           <<"translate_module", "SplitCriticalEdges", "Treeify",
             "InlineBlocks", "with_module">>
             \o (IF entrypoint = <<>> THEN <<>> ELSE <<"with_entrypoint">>)
             \o <<"link">>

IsPrefix(p, q) ==
    Len(p) <= Len(q) /\ \A i \in DOMAIN p : p[i] = q[i]

\* C21: wasm_to_ir yields a Component for RustCargoComponent and RustCargoLib
\* sources and a Program for every other source, never a Module; on the
\* program path it applies SplitCriticalEdges, Treeify, InlineBlocks in that
\* order to the translated module before linking, and sets the entrypoint on
\* the builder iff the test has one.
C21_WasmToIrShape ==
    \A k \in DOMAIN t_log :
       LET t == test[1]
           made == WasmToIrCalls(k)
           said == SaidCalls(t.source, t.entrypoint)
           component == t.source \in {"RustCargoComponent", "RustCargoLib"}
           ret == t_log[k].ret
       IN /\ IsPrefix(made, said)
          /\ (t_log[k].op = "hir" /\ ~ret.panic) =>
                /\ ret.value.variant # "Module"
                /\ ret.value.variant = "Component" <=> component
                /\ ret.value.variant = "Program" <=> ~component
                /\ made # <<>> => made = said
                /\ (made # <<>> /\ ~component) =>
                      /\ ret.value.inner.modules[1].rewrites =
                            <<"SplitCriticalEdges", "Treeify", "InlineBlocks">>
                      /\ ret.value.inner.entrypoint = t.entrypoint

\* hir() on a test made from Rust source with an entrypoint returned a
\* Program after translate_module, the three rewrites, with_module,
\* with_entrypoint and link
C21_Witness ==
    /\ Len(t_log) = 1
    /\ test[1].source = "Rust" /\ test[1].entrypoint # <<>>
    /\ t_log[1].op = "hir" /\ ~t_log[1].ret.panic
    /\ t_log[1].ret.value.variant = "Program"
    /\ Len(WasmToIrCalls(1)) = 7
    /\ WasmToIrCalls(1)[6] = "with_entrypoint"

\* C22: ir_masm_program() with no cached MASM needs a compiled IR: with hir
\* None it panics with "IR is not compiled", and so does expect_masm; with
\* hir Some it takes it, so that on return hir is None and ir_masm is Some,
\* and the next hir() translates the Wasm again into a new artifact.
C22_MasmConsumesHir ==
    [][LET k == Len(t_log')
           ret == t_log'[k].ret
           uncached == test[1].ir_masm = <<>>
       IN /\ (IsCall("ir_masm_program") \/ IsCall("expect_masm")) =>
                /\ (uncached /\ test[1].hir = <<>>) =>
                      /\ ret.panic
                      /\ ret.message = "IR is not compiled"
                      /\ test'[1].ir_masm = <<>>
                /\ (uncached /\ test[1].hir # <<>>) =>
                      /\ test'[1].hir = <<>>
                      /\ ~ret.panic => test'[1].ir_masm # <<>>
          /\ (IsCall("ir_masm_program") /\ uncached /\ ~ret.panic) =>
                /\ test[1].hir # <<>>
                /\ test'[1].ir_masm = <<ret.value>>
          /\ (IsCall("hir") /\ ~uncached) =>
                /\ test[1].hir = <<>> =>
                      \E i \in CallsOf(t_calls', k, "wasm_to_ir") :
                         t_calls'[i].fn \in Translators
                /\ (test[1].hir = <<>> /\ ~ret.panic) =>
                      \A j \in DOMAIN t_log :
                         t_log[j].op = "hir" => t_log[j].ret # ret]_vars

\* hir() translated the Wasm, ir_masm_program() took the artifact and
\* compiled it, and the next hir() translated the Wasm a second time
C22_Witness ==
    /\ Len(t_log) = 3
    /\ \A i \in 1..3 : ~t_log[i].ret.panic
    /\ t_log[1].op = "hir"
    /\ t_log[2].op = "ir_masm_program"
    /\ t_log[3].op = "hir"
    /\ t_log[3].ret.value # t_log[1].ret.value
    /\ Count(t_calls, Translators) = 2
    /\ test[1].hir = <<t_log[3].ret.value>>
    /\ test[1].ir_masm = <<t_log[2].ret.value>>

(***************************************************************************)
(* Properties of the ordering of Felt                                      *)
(***************************************************************************)
\* a < b on the values of two Felts
Below(a, b) ==
    \E i \in 1..4 :
       a.inner[i] < b.inner[i] /\ \A j \in 1..(i - 1) : a.inner[j] = b.inner[j]

\* C23: with intrinsics that compare their first argument with their second,
\* a.lt(&b), a.le(&b), a.gt(&b), a.ge(&b) are true exactly when a < b,
\* a <= b, a > b, a >= b, and a.cmp(&b) is Less iff a < b, Greater iff
\* a > b, Equal iff a = b, so that cmp(a, b) = Less iff cmp(b, a) = Greater.
C23_OrderingFollowsValues ==
    Len(felt_ord) = 1 =>
       LET a == felt_pair[1]
           b == felt_pair[2]
           r == felt_ord[1]
       IN /\ r.lt <=> Below(a, b)
          /\ r.le <=> ~Below(b, a)
          /\ r.gt <=> Below(b, a)
          /\ r.ge <=> ~Below(a, b)
          /\ r.cmp = "Less" <=> Below(a, b)
          /\ r.cmp = "Greater" <=> Below(b, a)
          /\ r.cmp = "Equal" <=> a = b
          /\ r.cmp = "Less" <=> r.rev = "Greater"

====
